---- MODULE Spec2Model ----
(***************************************************************************)
(* Model of actions/actions.py: the four slot validators of                *)
(* ValidateReclamationForm and the two custom actions                      *)
(* ActionSubmitReclamation and ActionTrackReclamation.                     *)
(*                                                                         *)
(* A Python str is a sequence of one-character strings.  A text sent to    *)
(* the user is a sequence of pieces: the literal segments of the f-string  *)
(* are single pieces, every interpolated value is spelled out character    *)
(* by character.  Python values are tagged records: None, a str, an int,   *)
(* a parsed JSON object (dict), a parsed JSON list.                        *)
(***************************************************************************)
EXTENDS Integers, Sequences, FiniteSets, TLC

VARIABLES slots, tracker, handler, arg, ret, messages, requests, raised, calls, persisted

vars == <<slots, tracker, handler, arg, ret, messages, requests, raised, calls, persisted>>

(***************************************************************************)
(* Bounds of the model.                                                    *)
(***************************************************************************)
\* width of the whitespace padding put around a validator input
MaxPad == 1
\* longest core of an email / username input
MaxCore == 2
\* how far a phone's digit count / a message's length goes beyond the minimum
MaxExtra == 1
\* validator invocations in one conversation
MaxCalls == 2
\* how many characters the longest reclamation_message has beyond the excerpt
MaxOver == 1

(***************************************************************************)
(* Program constants.                                                      *)
(***************************************************************************)
MinPhoneDigits == 5
MinUsernameLen == 2
MinMessageLen == 10
IssueExcerpt == 100
MessageExcerpt == 150
RequestTimeout == 15
HTTP_CREATED == 201
HTTP_OK == 200
HTTP_NOT_FOUND == 404

(***************************************************************************)
(* Python values.                                                          *)
(***************************************************************************)
None == [t |-> "none"]
Str(s) == [t |-> "str", s |-> s]
IntVal(n) == [t |-> "int", n |-> n]
JList == [t |-> "list"]
JObj(f) == [t |-> "obj", o |-> f]
NoJSON == [t |-> "nojson"]

DigitChars == <<"0", "1", "2", "3", "4", "5", "6", "7", "8", "9">>
LowerChars == <<"a", "b", "c", "d", "e", "f", "g", "h", "i", "j", "k", "l", "m",
                "n", "o", "p", "q", "r", "s", "t", "u", "v", "w", "x", "y", "z">>
UpperChars == <<"A", "B", "C", "D", "E", "F", "G", "H", "I", "J", "K", "L", "M",
                "N", "O", "P", "Q", "R", "S", "T", "U", "V", "W", "X", "Y", "Z">>
Whitespace == {" ", "\t", "\n"}

Range(s) == {s[i] : i \in DOMAIN s}

\* c * n
Rep(c, n) == [i \in 1..n |-> c]

Take(s, n) == IF Len(s) <= n THEN s ELSE SubSeq(s, 1, n)

RECURSIVE DecStr(_)
DecStr(n) == IF n < 10 THEN <<DigitChars[n + 1]>>
             ELSE DecStr(n \div 10) \o <<DigitChars[(n % 10) + 1]>>

\* str(x)
StrOf(v) ==
    CASE v.t = "none" -> <<"N", "o", "n", "e">>
      [] v.t = "str" -> v.s
      [] v.t = "int" -> IF v.n < 0 THEN <<"-">> \o DecStr(0 - v.n) ELSE DecStr(v.n)
      [] v.t = "list" -> <<"[", "]">>

\* bool(x)
Truthy(v) ==
    CASE v.t = "none" -> FALSE
      [] v.t = "str" -> v.s # <<>>
      [] v.t = "int" -> v.n # 0
      [] v.t = "list" -> FALSE

\* strip() left out
Strip_left_out(s) == s

\* str.strip()
RECURSIVE LStrip(_)
LStrip(s) == IF s # <<>> /\ Head(s) \in Whitespace THEN LStrip(Tail(s)) ELSE s

RECURSIVE RStrip(_)
RStrip(s) == IF s # <<>> /\ s[Len(s)] \in Whitespace
             THEN RStrip(SubSeq(s, 1, Len(s) - 1)) ELSE s

Strip(s) == RStrip(LStrip(s))

\* str.isdigit on one character
IsDigitChar(c) == c \in Range(DigitChars)

\* str.isdigit: false on the empty string
IsDigit(s) == s # <<>> /\ \A i \in DOMAIN s : IsDigitChar(s[i])

\* "".join(filter(str.isdigit, phone))
DigitsOf(s) == SelectSeq(s, IsDigitChar)

\* c in s
In(c, s) == \E i \in DOMAIN s : s[i] = c

UpperChar(c) == IF \E i \in 1..26 : LowerChars[i] = c
                THEN UpperChars[CHOOSE i \in 1..26 : LowerChars[i] = c] ELSE c

LowerChar(c) == IF \E i \in 1..26 : UpperChars[i] = c
                THEN LowerChars[CHOOSE i \in 1..26 : UpperChars[i] = c] ELSE c

\* upper() left out
Upper_left_out(s) == s

\* str.upper()
Upper(s) == [i \in 1..Len(s) |-> UpperChar(s[i])]

\* str.capitalize(): the first character upper-cased, the rest lower-cased
Capitalize(s) == [i \in 1..Len(s) |-> IF i = 1 THEN UpperChar(s[i]) ELSE LowerChar(s[i])]

(***************************************************************************)
(* The result of a handler: the events (slot, value) it returns, the       *)
(* texts it passed to dispatcher.utter_message, the HTTP requests it       *)
(* issued and the class of the exception that left it ("None": returned).  *)
(***************************************************************************)
SlotSet(key, value) == [slot |-> key, value |-> value]

Result(events, msgs) == [events |-> events, msgs |-> msgs]

EMAIL_PROMPT == <<"Please provide a valid email address (e.g., name@example.com).">>
PHONE_PROMPT == <<"Please provide a valid phone number with at least 5 digits.">>
USERNAME_SHORT_PROMPT == <<"Please provide a valid username (at least 2 characters).">>
USERNAME_ID_PROMPT == <<"That looks like an ID. Please provide your username instead.">>
MESSAGE_PROMPT == <<"Please provide more details about your issue (at least 10 characters).">>

validate_email(slot_value) ==
    IF ~Truthy(slot_value) \/ Strip(StrOf(slot_value)) = <<>>
    THEN Result(<<SlotSet("email", None)>>, <<>>)
    ELSE LET email == Strip(StrOf(slot_value)) IN
         IF ~In("@", email) \/ ~In(".", email)
         THEN Result(<<SlotSet("email", None)>>, <<EMAIL_PROMPT>>)
         ELSE Result(<<SlotSet("email", Str(email))>>, <<>>)

\* the digits kept in place of the trimmed input
validate_phone_digits_kept(slot_value) ==
    IF ~Truthy(slot_value) \/ Strip(StrOf(slot_value)) = <<>>
    THEN Result(<<SlotSet("phone", None)>>, <<>>)
    ELSE LET phone == Strip(StrOf(slot_value))
             digits == DigitsOf(phone) IN
         IF Len(digits) < MinPhoneDigits
         THEN Result(<<SlotSet("phone", None)>>, <<PHONE_PROMPT>>)
         ELSE Result(<<SlotSet("phone", Str(digits))>>, <<>>)

validate_phone(slot_value) ==
    IF ~Truthy(slot_value) \/ Strip(StrOf(slot_value)) = <<>>
    THEN Result(<<SlotSet("phone", None)>>, <<>>)
    ELSE LET phone == Strip(StrOf(slot_value))
             digits == DigitsOf(phone) IN
         IF Len(digits) < MinPhoneDigits
         THEN Result(<<SlotSet("phone", None)>>, <<PHONE_PROMPT>>)
         ELSE Result(<<SlotSet("phone", Str(phone))>>, <<>>)

\* the isdigit test left out
validate_username_no_id_test(slot_value) ==
    IF ~Truthy(slot_value) \/ Len(Strip(StrOf(slot_value))) < MinUsernameLen
    THEN Result(<<SlotSet("username", None)>>, <<USERNAME_SHORT_PROMPT>>)
    ELSE Result(<<SlotSet("username", Str(Strip(StrOf(slot_value))))>>, <<>>)

validate_username(slot_value) ==
    IF ~Truthy(slot_value) \/ Len(Strip(StrOf(slot_value))) < MinUsernameLen
    THEN Result(<<SlotSet("username", None)>>, <<USERNAME_SHORT_PROMPT>>)
    ELSE LET username == Strip(StrOf(slot_value)) IN
         IF IsDigit(username)
         THEN Result(<<SlotSet("username", None)>>, <<USERNAME_ID_PROMPT>>)
         ELSE Result(<<SlotSet("username", Str(username))>>, <<>>)

validate_reclamation_message(slot_value) ==
    IF ~Truthy(slot_value) \/ Len(Strip(StrOf(slot_value))) < MinMessageLen
    THEN Result(<<SlotSet("reclamation_message", None)>>, <<MESSAGE_PROMPT>>)
    ELSE Result(<<SlotSet("reclamation_message", Str(Strip(StrOf(slot_value))))>>, <<>>)

(***************************************************************************)
(* The conversation's slots, and the orchestrator applying the slot        *)
(* updates a handler returns.                                              *)
(***************************************************************************)
SlotNames == {"email", "phone", "username", "reclamation_message", "reclamation_id"}

RECURSIVE ApplyEvents(_, _)
ApplyEvents(sl, events) ==
    IF events = <<>> THEN sl
    ELSE ApplyEvents([sl EXCEPT ![Head(events).slot] = Head(events).value], Tail(events))

(***************************************************************************)
(* Inputs of the validators: None, and a core with or without whitespace   *)
(* on either side.                                                         *)
(***************************************************************************)
Seqs(A, n) == UNION {[1..k -> A] : k \in 0..n}

Padded(cores) ==
    {Str(Rep(" ", l) \o c \o Rep(" ", r)) : l \in {0, MaxPad}, r \in {0, MaxPad}, c \in cores}

EmailInputs == {None} \cup Padded(Seqs({"a", "@", "."}, MaxCore))

UsernameInputs == {None} \cup Padded(Seqs({"a", "1"}, MaxCore))

\* d digits, split "12-345"-wise by an optional separator
PhoneInputs ==
    {None} \cup Padded({<<>>} \cup
        {Rep("1", 2) \o sep \o Rep("2", d - 2) :
            d \in (MinPhoneDigits - 2)..(MinPhoneDigits + MaxExtra),
            sep \in {<<>>, <<"-">>}})

\* n letters, with or without a blank inside
MessageInputs ==
    {None} \cup Padded({<<>>} \cup
        {Rep("a", 3) \o sep \o Rep("b", n - 3) :
            n \in (MinMessageLen - 2)..(MinMessageLen + MaxExtra),
            sep \in {<<>>, <<" ">>}})

InitValidate ==
    /\ slots = [n \in SlotNames |-> None]
    /\ tracker = [n \in SlotNames |-> None]
    /\ handler = "init"
    /\ arg = None
    /\ ret = <<>>
    /\ messages = <<>>
    /\ requests = <<>>
    /\ raised = "None"
    /\ calls = 0
    /\ persisted = None

\* what a validator invocation leaves: its input, the mapping it returned (applied to
\* the slots by the orchestrator) and the texts it sent
Validated(name, slot_value, r) ==
    /\ handler' = name
    /\ arg' = slot_value
    /\ ret' = r.events
    /\ messages' = r.msgs
    /\ slots' = ApplyEvents(slots, r.events)
    /\ UNCHANGED <<tracker, requests, raised, persisted>>

ValidateEmail ==
    /\ calls < MaxCalls
    /\ calls' = calls + 1
    /\ \E v \in EmailInputs : Validated("validate_email", v, validate_email(v))

ValidatePhone ==
    /\ calls < MaxCalls
    /\ calls' = calls + 1
    /\ \E v \in PhoneInputs : Validated("validate_phone", v, validate_phone(v))

ValidateUsername ==
    /\ calls < MaxCalls
    /\ calls' = calls + 1
    /\ \E v \in UsernameInputs : Validated("validate_username", v, validate_username(v))

ValidateReclamationMessage ==
    /\ calls < MaxCalls
    /\ calls' = calls + 1
    /\ \E v \in MessageInputs :
          Validated("validate_reclamation_message", v, validate_reclamation_message(v))

NextValidate ==
    \/ ValidateEmail
    \/ ValidatePhone
    \/ ValidateUsername
    \/ ValidateReclamationMessage

SpecValidate == InitValidate /\ [][NextValidate]_vars

(***************************************************************************)
(* Exceptions.  A step of a try body either returns or raises; an except   *)
(* clause catches the exceptions of its class and of the subclasses.       *)
(***************************************************************************)
Return(events, msgs) == [exc |-> "None", events |-> events, msgs |-> msgs]

Raise(exc) == [exc |-> exc, events |-> <<>>, msgs |-> <<>>]

\* Timeout, ConnectionError, JSONDecodeError and AttributeError all derive from Exception
IsInstance(exc, cls) == exc = cls \/ cls = "Exception"

\* the first except clause whose class matches handles the exception
RECURSIVE Except(_, _)
Except(r, clauses) ==
    IF r.exc = "None" \/ clauses = <<>> THEN r
    ELSE IF IsInstance(r.exc, Head(clauses).cls)
         THEN Return(<<>>, r.msgs \o <<Head(clauses).msg>>)
         ELSE Except(r, Tail(clauses))

(***************************************************************************)
(* Outcomes of the outbound call: a response (status code and body), a     *)
(* timeout, any other transport failure.                                   *)
(***************************************************************************)
Response(status, body) == [kind |-> "response", status |-> status, body |-> body]
TimedOut == [kind |-> "timeout"]
Unreachable == [kind |-> "error"]

Absent == [t |-> "absent"]

\* the dict with the keys of cand that are not Absent
MkObj(cand) == JObj([k \in {x \in DOMAIN cand : cand[x] # Absent} |-> cand[k]])

\* dict.get(key, default)
Get(d, key, default) == IF key \in DOMAIN d.o THEN d.o[key] ELSE default

Chars_Anonymous == <<"A", "n", "o", "n", "y", "m", "o", "u", "s">>
Chars_Unknown == <<"U", "n", "k", "n", "o", "w", "n">>
Chars_unknown == <<"u", "n", "k", "n", "o", "w", "n">>
Chars_normal == <<"n", "o", "r", "m", "a", "l">>
Chars_neutral == <<"n", "e", "u", "t", "r", "a", "l">>
Chars_high == <<"h", "i", "g", "h">>
Chars_negative == <<"n", "e", "g", "a", "t", "i", "v", "e">>
Chars_open == <<"o", "p", "e", "n">>

(***************************************************************************)
(* ActionSubmitReclamation.run                                             *)
(***************************************************************************)
SUBMIT_TIMEOUT == <<"Django API timeout. Please try again later.">>
NO_CONNECTION == <<"Could not connect to the Django server. Please try again later.">>

\* repr of a parsed body, as the f-string renders it
ReprValue(v) ==
    IF v.t = "str" THEN <<"'">> \o v.s \o <<"'">> ELSE StrOf(v)

RECURSIVE ReprItems(_, _)
ReprItems(d, keys) ==
    IF keys = <<>> THEN <<>>
    ELSE IF Head(keys) \in DOMAIN d.o
         THEN <<"'", Head(keys), "'", ": ">> \o ReprValue(d.o[Head(keys)]) \o <<", ">>
              \o ReprItems(d, Tail(keys))
         ELSE ReprItems(d, Tail(keys))

Repr(v) ==
    IF v.t = "obj"
    THEN <<"{">> \o ReprItems(v, <<"id", "status", "priority", "sentiment", "message">>) \o <<"}">>
    ELSE ReprValue(v)

\* the JSON body of the POST
Payload(sl) ==
    LET username == sl["username"]
        reclamation_message == sl["reclamation_message"]
        email == sl["email"]
        phone == sl["phone"]
        data == [k \in {"username", "message", "category", "location"} |->
                    CASE k = "username" ->
                            IF Truthy(username) THEN StrOf(username) ELSE Chars_Anonymous
                      [] k = "message" ->
                            IF Truthy(reclamation_message) THEN StrOf(reclamation_message) ELSE <<>>
                      [] k = "category" -> <<"Rasa Bot">>
                      [] k = "location" -> <<"Rasa Chat Interface">>]
        with_email == IF Truthy(email) /\ Strip(StrOf(email)) # <<>>
                      THEN [k \in DOMAIN data \cup {"email"} |->
                                IF k = "email" THEN Strip(StrOf(email)) ELSE data[k]]
                      ELSE data
    IN  IF Truthy(phone) /\ Strip(StrOf(phone)) # <<>>
        THEN [k \in DOMAIN with_email \cup {"phone"} |->
                  IF k = "phone" THEN Strip(StrOf(phone)) ELSE with_email[k]]
        ELSE with_email

PostRequest(sl) ==
    [method |-> "POST", url |-> <<"DJANGO_API_BASE", "/reclamations/add/">>,
     json |-> Payload(sl), timeout |-> RequestTimeout]

SuccessMessage(sl, response_data) ==
    LET username == sl["username"]
        reclamation_message == sl["reclamation_message"]
        email == sl["email"]
        phone == sl["phone"]
        rec_id == Get(response_data, "id", Str(Chars_Unknown))
        priority == Upper(StrOf(Get(response_data, "priority", Str(Chars_normal))))
        sentiment == Capitalize(StrOf(Get(response_data, "sentiment", Str(Chars_neutral))))
        contact_email == IF Truthy(email) /\ Strip(StrOf(email)) # <<>>
                         THEN <<"\nEmail: ">> \o StrOf(email) ELSE <<>>
        contact_phone == IF Truthy(phone) /\ Strip(StrOf(phone)) # <<>>
                         THEN <<"\nPhone: ">> \o StrOf(phone) ELSE <<>>
    IN  <<"Reclamation submitted successfully!">> \o contact_email \o contact_phone
        \o <<"\n\nReclamation ID: #">> \o StrOf(rec_id)
        \o <<"\nUsername: ">> \o (IF Truthy(username) THEN StrOf(username) ELSE Chars_Anonymous)
        \o <<"\nIssue: ">> \o Take(StrOf(reclamation_message), IssueExcerpt)
        \o <<"...\nPriority: ">> \o priority
        \o <<"\nSentiment: ">> \o sentiment
        \o <<"\n\nWe will review your issue and contact you soon.">>

SubmitErrorDetails(status, error_json) ==
    <<"Error submitting reclamation (HTTP ">> \o DecStr(status)
    \o <<"). Details: ">> \o Repr(error_json)

SubmitErrorGeneric(status) ==
    <<"Error submitting reclamation (HTTP ">> \o DecStr(status) \o <<"). Please try again.">>

\* the id of an error body persisted too
SubmitTry_persists_on_error(sl, out) ==
    IF out.kind = "timeout" THEN Raise("Timeout")
    ELSE IF out.kind = "error" THEN Raise("ConnectionError")
    ELSE IF out.body = NoJSON
         THEN IF out.status = HTTP_CREATED THEN Raise("JSONDecodeError")
              ELSE Return(<<>>, <<SubmitErrorGeneric(out.status)>>)
         ELSE IF out.body.t # "obj"
              THEN IF out.status = HTTP_CREATED THEN Raise("AttributeError")
                   ELSE Return(<<>>, <<SubmitErrorDetails(out.status, out.body)>>)
              ELSE Return(<<SlotSet("reclamation_id",
                                    Str(StrOf(Get(out.body, "id", Str(Chars_Unknown)))))>>,
                          <<IF out.status = HTTP_CREATED THEN SuccessMessage(sl, out.body)
                            ELSE SubmitErrorDetails(out.status, out.body)>>)

\* the body of the outer try
SubmitTry(sl, out) ==
    IF out.kind = "timeout" THEN Raise("Timeout")
    ELSE IF out.kind = "error" THEN Raise("ConnectionError")
    ELSE IF out.status = HTTP_CREATED
         THEN IF out.body = NoJSON THEN Raise("JSONDecodeError")
              ELSE IF out.body.t # "obj" THEN Raise("AttributeError")
              ELSE Return(<<SlotSet("reclamation_id",
                                    Str(StrOf(Get(out.body, "id", Str(Chars_Unknown)))))>>,
                          <<SuccessMessage(sl, out.body)>>)
         ELSE Except(IF out.body = NoJSON THEN Raise("JSONDecodeError")
                     ELSE Return(<<>>, <<SubmitErrorDetails(out.status, out.body)>>),
                     <<[cls |-> "Exception", msg |-> SubmitErrorGeneric(out.status)]>>)

\* no catch-all clause
SubmitExceptClauses_timeout_only ==
    <<[cls |-> "Timeout", msg |-> SUBMIT_TIMEOUT]>>

\* no clause for the timeout
SubmitExceptClauses_no_timeout ==
    <<[cls |-> "Exception", msg |-> NO_CONNECTION]>>

SubmitExceptClauses ==
    <<[cls |-> "Timeout", msg |-> SUBMIT_TIMEOUT], [cls |-> "Exception", msg |-> NO_CONNECTION]>>

ActionSubmitReclamation_run(sl, out) ==
    LET r == Except(SubmitTry(sl, out), SubmitExceptClauses)
    IN  [exc |-> r.exc, events |-> r.events, msgs |-> r.msgs, requests |-> <<PostRequest(sl)>>]

(***************************************************************************)
(* ActionTrackReclamation.run                                              *)
(***************************************************************************)
ID_PROMPT == <<"Please provide your reclamation ID.">>
NOT_FOUND == <<"No reclamation found with that ID.">>
TRACK_TIMEOUT == <<"Django API timeout while tracking. Please try again later.">>

GetRequest(reclamation_id) ==
    [method |-> "GET",
     url |-> <<"DJANGO_API_BASE", "/reclamations/">> \o StrOf(reclamation_id) \o <<"/">>,
     timeout |-> RequestTimeout]

TrackMessage(reclamation_id, data) ==
    <<"Reclamation #">> \o StrOf(Get(data, "id", reclamation_id))
    \o <<"\nStatus: ">> \o StrOf(Get(data, "status", Str(Chars_unknown)))
    \o <<"\nPriority: ">> \o StrOf(Get(data, "priority", Str(Chars_normal)))
    \o <<"\nSentiment: ">> \o StrOf(Get(data, "sentiment", Str(Chars_neutral)))
    \o <<"\nMessage: ">> \o Take(StrOf(Get(data, "message", Str(<<>>))), MessageExcerpt)

TrackError(status) ==
    <<"Tracking error (HTTP ">> \o DecStr(status) \o <<"). Please try again.">>

\* no branch for 404
TrackTry_no_404(reclamation_id, out) ==
    IF out.kind = "timeout" THEN Raise("Timeout")
    ELSE IF out.kind = "error" THEN Raise("ConnectionError")
    ELSE IF out.status = HTTP_OK
         THEN IF out.body = NoJSON THEN Raise("JSONDecodeError")
              ELSE IF out.body.t # "obj" THEN Raise("AttributeError")
              ELSE Return(<<>>, <<TrackMessage(reclamation_id, out.body)>>)
         ELSE Return(<<>>, <<TrackError(out.status)>>)

\* the body of the try
TrackTry(reclamation_id, out) ==
    IF out.kind = "timeout" THEN Raise("Timeout")
    ELSE IF out.kind = "error" THEN Raise("ConnectionError")
    ELSE IF out.status = HTTP_OK
         THEN IF out.body = NoJSON THEN Raise("JSONDecodeError")
              ELSE IF out.body.t # "obj" THEN Raise("AttributeError")
              ELSE Return(<<>>, <<TrackMessage(reclamation_id, out.body)>>)
         ELSE IF out.status = HTTP_NOT_FOUND THEN Return(<<>>, <<NOT_FOUND>>)
         ELSE Return(<<>>, <<TrackError(out.status)>>)

TrackExceptClauses ==
    <<[cls |-> "Timeout", msg |-> TRACK_TIMEOUT], [cls |-> "Exception", msg |-> NO_CONNECTION]>>

\* "is None" in place of "not reclamation_id"
ActionTrackReclamation_run_is_none(sl, out) ==
    LET reclamation_id == sl["reclamation_id"] IN
    IF reclamation_id = None
    THEN [exc |-> "None", events |-> <<>>, msgs |-> <<ID_PROMPT>>, requests |-> <<>>]
    ELSE LET r == Except(TrackTry(reclamation_id, out), TrackExceptClauses)
         IN  [exc |-> r.exc, events |-> r.events, msgs |-> r.msgs,
              requests |-> <<GetRequest(reclamation_id)>>]

ActionTrackReclamation_run(sl, out) ==
    LET reclamation_id == sl["reclamation_id"] IN
    IF ~Truthy(reclamation_id)
    THEN [exc |-> "None", events |-> <<>>, msgs |-> <<ID_PROMPT>>, requests |-> <<>>]
    ELSE LET r == Except(TrackTry(reclamation_id, out), TrackExceptClauses)
         IN  [exc |-> r.exc, events |-> r.events, msgs |-> r.msgs,
              requests |-> <<GetRequest(reclamation_id)>>]

(***************************************************************************)
(* One conversation: the slots hold what the orchestrator stored, the      *)
(* remote API answers the outbound call in any way.                        *)
(***************************************************************************)
UsernameSlots == {None, Str(<<>>), Str(<<"J", "o">>)}

EmailSlots == {None, Str(<<" ">>), Str(<<" ", "a", "@", "b", ".", "c">>)}

PhoneSlots == {None, Str(<<"1", "2", "-", "3", "4", "5">>)}

MessageSlots == {None} \cup {Str(Rep("a", IssueExcerpt) \o Rep("b", k)) : k \in 0..MaxOver}

IdSlots == {None, Str(<<>>), Str(<<"7">>)}

SubmitBodies ==
    {NoJSON, JList} \cup
    {MkObj([id |-> i, priority |-> p, sentiment |-> s]) :
        i \in {Absent, IntVal(42), Str(<<>>), None},
        p \in {Absent, Str(Chars_high)},
        s \in {Absent, Str(Chars_negative)}}

\* what a refusing backend sends: nothing parseable, a list, a dict of details
ErrorBodies == {NoJSON, JList, MkObj([message |-> Str(<<"b", "a", "d">>)])}

SubmitOutcomes ==
    {Response(HTTP_CREATED, b) : b \in SubmitBodies}
    \cup {Response(st, b) : st \in {HTTP_OK, 400, 500}, b \in ErrorBodies}
    \cup {TimedOut, Unreachable}

TrackBodies ==
    {NoJSON, JList} \cup
    {MkObj([id |-> i, status |-> st, priority |-> p, sentiment |-> p, message |-> m]) :
        i \in {Absent, IntVal(42)},
        st \in {Absent, Str(Chars_open)},
        p \in {Absent, Str(Chars_high)},
        m \in {Absent, Str(Rep("m", MessageExcerpt + MaxOver))}}

TrackOutcomes ==
    {Response(HTTP_OK, b) : b \in TrackBodies}
    \cup {Response(st, b) : st \in {HTTP_NOT_FOUND, HTTP_CREATED, 500}, b \in ErrorBodies}
    \cup {TimedOut, Unreachable}

Init ==
    /\ slots \in {[n \in SlotNames |->
                     CASE n = "username" -> u
                       [] n = "email" -> e
                       [] n = "phone" -> p
                       [] n = "reclamation_message" -> m
                       [] n = "reclamation_id" -> i] :
                  u \in UsernameSlots, e \in EmailSlots, p \in PhoneSlots,
                  m \in MessageSlots, i \in IdSlots}
    /\ tracker = slots
    /\ handler = "init"
    /\ arg = None
    /\ ret = <<>>
    /\ messages = <<>>
    /\ requests = <<>>
    /\ raised = "None"
    /\ calls = 0
    /\ persisted = slots["reclamation_id"]

(***************************************************************************)
(* History variable persisted: the id handed out by the most recent        *)
(* submission that succeeded, in the form the conversation is to keep it;  *)
(* the initial reclamation_id before any success.  It is written by no     *)
(* handler and read by none.                                               *)
(***************************************************************************)
Succeeded(out) == out.kind = "response" /\ out.status = 201 /\ out.body.t = "obj"

ExpectedId(body) ==
    IF "id" \notin DOMAIN body.o THEN <<"U", "n", "k", "n", "o", "w", "n">>
    ELSE CASE body.o["id"] = IntVal(42) -> <<"4", "2">>
           [] body.o["id"] = Str(<<>>) -> <<>>
           [] body.o["id"] = None -> <<"N", "o", "n", "e">>

\* one run of a custom action on the tracker's slots; the orchestrator applies the events
Ran(name, out, r) ==
    /\ handler' = name
    /\ tracker' = slots
    /\ arg' = IF r.requests = <<>> THEN None ELSE out
    /\ ret' = r.events
    /\ messages' = r.msgs
    /\ requests' = r.requests
    /\ raised' = r.exc
    /\ slots' = IF r.exc = "None" THEN ApplyEvents(slots, r.events) ELSE slots
    /\ UNCHANGED calls

Submit ==
    \E out \in SubmitOutcomes :
        /\ Ran("action_submit_reclamation", out, ActionSubmitReclamation_run(slots, out))
        /\ persisted' = IF Succeeded(out) THEN Str(ExpectedId(out.body)) ELSE persisted

Track ==
    \E out \in TrackOutcomes :
        /\ Ran("action_track_reclamation", out, ActionTrackReclamation_run(slots, out))
        /\ UNCHANGED persisted

Next ==
    \/ Submit
    \/ Track

Spec == Init /\ [][Next]_vars

(***************************************************************************)
(* Vocabulary of the claims.  The field rules and the expected renderings  *)
(* are stated on their own, not through the operators of the handlers.     *)
(***************************************************************************)
Validators ==
    {"validate_email", "validate_phone", "validate_username", "validate_reclamation_message"}

FormSlots == {"email", "phone", "username", "reclamation_message"}

FieldOf(h) ==
    CASE h = "validate_email" -> "email"
      [] h = "validate_phone" -> "phone"
      [] h = "validate_username" -> "username"
      [] h = "validate_reclamation_message" -> "reclamation_message"

\* s without its leading and trailing whitespace
Trimmed(s) ==
    LET inked == {i \in DOMAIN s : s[i] \notin Whitespace} IN
    IF inked = {} THEN <<>>
    ELSE SubSeq(s, CHOOSE i \in inked : \A j \in inked : i <= j,
                   CHOOSE i \in inked : \A j \in inked : j <= i)

\* absent, empty or whitespace only
Blank(v) == v = None \/ (v.t = "str" /\ Trimmed(v.s) = <<>>)

DecimalDigits == {"0", "1", "2", "3", "4", "5", "6", "7", "8", "9"}

Rule(field, s) ==
    CASE field = "email" -> (\E i \in DOMAIN s : s[i] = "@") /\ (\E i \in DOMAIN s : s[i] = ".")
      [] field = "phone" -> Cardinality({i \in DOMAIN s : s[i] \in DecimalDigits}) >= 5
      [] field = "username" -> Len(s) >= 2 /\ (\E i \in DOMAIN s : s[i] \notin DecimalDigits)
      [] field = "reclamation_message" -> Len(s) >= 10

Prompts(field) ==
    CASE field = "email" -> {EMAIL_PROMPT}
      [] field = "phone" -> {PHONE_PROMPT}
      [] field = "username" -> {USERNAME_SHORT_PROMPT, USERNAME_ID_PROMPT}
      [] field = "reclamation_message" -> {MESSAGE_PROMPT}

\* p occurs in s as a contiguous run
IsInfix(p, s) == \E i \in 0..(Len(s) - Len(p)) : SubSeq(s, i + 1, i + Len(p)) = p

IsSuffix(p, s) == Len(p) <= Len(s) /\ SubSeq(s, Len(s) - Len(p) + 1, Len(s)) = p

\* absent or empty
Missing(v) == v = None \/ v = Str(<<>>)

ExpectedPriority(body) ==
    IF "priority" \notin DOMAIN body.o THEN <<"N", "O", "R", "M", "A", "L">>
    ELSE <<"H", "I", "G", "H">>

ExpectedSentiment(body) ==
    IF "sentiment" \notin DOMAIN body.o THEN <<"N", "e", "u", "t", "r", "a", "l">>
    ELSE <<"N", "e", "g", "a", "t", "i", "v", "e">>

IsSubmit == handler = "action_submit_reclamation"
IsTrack == handler = "action_track_reclamation"

(***************************************************************************)
(* C1: each of the four validators, given an absent, empty or              *)
(* whitespace-only input, returns None for its slot and sends the user     *)
(* no message.                                                             *)
(***************************************************************************)
C1_BlankInputIsSilent ==
    (handler \in Validators /\ Blank(arg))
        => (ret = <<SlotSet(FieldOf(handler), None)>> /\ messages = <<>>)

(***************************************************************************)
(* C2: after any sequence of validator invocations, each form slot holds   *)
(* None or a string satisfying its field's rule; an input failing the rule *)
(* leaves None in the slot.                                                *)
(***************************************************************************)
C2_SlotsHoldOnlyValidValues ==
    /\ \A f \in FormSlots :
          slots[f] = None \/ (slots[f].t = "str" /\ Rule(f, slots[f].s))
    /\ (handler \in Validators /\ arg # None /\ ~Rule(FieldOf(handler), Trimmed(arg.s)))
          => slots[FieldOf(handler)] = None

C2_Witness ==
    /\ handler = "validate_username"
    /\ arg = Str(<<"1", "1", " ">>)
    /\ slots["username"] = None
    /\ \E f \in FormSlots : slots[f] # None

(***************************************************************************)
(* C3: on an input that is not blank, a validator accepts exactly when the *)
(* field rule holds of the trimmed input; an accepted value is the trimmed *)
(* input (a phone keeps its separators), a rejection returns None and      *)
(* sends one correction prompt.                                            *)
(***************************************************************************)
C3_AcceptsExactlyByRule ==
    (handler \in Validators /\ ~Blank(arg)) =>
        LET f == FieldOf(handler) IN
        IF Rule(f, Trimmed(arg.s))
        THEN ret = <<SlotSet(f, Str(Trimmed(arg.s)))>>
        ELSE /\ ret = <<SlotSet(f, None)>>
             /\ Len(messages) = 1
             /\ messages[1] \in Prompts(f)

C3_Witness ==
    /\ handler = "validate_phone"
    /\ arg = Str(<<" ", "1", "1", "-", "2", "2", "2", " ">>)
    /\ ret = <<SlotSet("phone", Str(<<"1", "1", "-", "2", "2", "2">>))>>

(***************************************************************************)
(* C4: every run of the submission and of the tracking handler returns     *)
(* normally and sends the user a message, whatever the outbound call did.  *)
(***************************************************************************)
C4_HandlersAlwaysAnswer ==
    (IsSubmit \/ IsTrack) => (raised = "None" /\ Len(messages) >= 1)

C4_Witness ==
    /\ IsSubmit
    /\ arg = Response(HTTP_CREATED, NoJSON)
    /\ raised = "None"
    /\ messages = <<NO_CONNECTION>>

(***************************************************************************)
(* C5: on status 201 with a structured body the submission sends exactly   *)
(* one message, holding '#<id>', the priority in upper case, the sentiment *)
(* capitalized, the username or "Anonymous" and the first 100 characters   *)
(* of the message, and returns the single slot update reclamation_id :=    *)
(* str(id).                                                                *)
(***************************************************************************)
C5_SuccessMessageAndSlot ==
    (IsSubmit /\ Succeeded(arg)) =>
        /\ Len(messages) = 1
        /\ IsInfix(<<"\n\nReclamation ID: #">> \o ExpectedId(arg.body) \o <<"\nUsername: ">>,
                   messages[1])
        /\ IsInfix(<<"...\nPriority: ">> \o ExpectedPriority(arg.body) \o <<"\nSentiment: ">>,
                   messages[1])
        /\ IsInfix(<<"\nSentiment: ">> \o ExpectedSentiment(arg.body)
                       \o <<"\n\nWe will review your issue and contact you soon.">>,
                   messages[1])
        /\ IsInfix(<<"\nUsername: ">>
                       \o (IF Missing(tracker["username"])
                           THEN <<"A", "n", "o", "n", "y", "m", "o", "u", "s">>
                           ELSE tracker["username"].s)
                       \o <<"\nIssue: ">>,
                   messages[1])
        /\ tracker["reclamation_message"] # None =>
              IsInfix(<<"\nIssue: ">>
                          \o SubSeq(tracker["reclamation_message"].s, 1, 100)
                          \o <<"...\nPriority: ">>,
                      messages[1])
        /\ ret = <<[slot |-> "reclamation_id", value |-> Str(ExpectedId(arg.body))]>>

C5_Witness ==
    /\ IsSubmit
    /\ arg = Response(201, MkObj([id |-> IntVal(42), priority |-> Str(Chars_high),
                                  sentiment |-> Str(Chars_negative)]))
    /\ ret = <<[slot |-> "reclamation_id", value |-> Str(<<"4", "2">>)]>>
    /\ tracker["reclamation_message"] # None
    /\ Len(tracker["reclamation_message"].s) > 100

(***************************************************************************)
(* C6: a submission issues exactly one POST; outside the success outcome   *)
(* it sends exactly one message, of the class of the outcome, and returns  *)
(* no slot update; a slot update is returned only on success.              *)
(***************************************************************************)
C6_OnePostOneMessage ==
    IsSubmit =>
        /\ Len(requests) = 1
        /\ requests[1].method = "POST"
        /\ ret # <<>> => Succeeded(arg)
        /\ ~Succeeded(arg) =>
              /\ ret = <<>>
              /\ Len(messages) = 1
              /\ arg.kind = "timeout" => messages[1] = SUBMIT_TIMEOUT
              /\ arg.kind = "error" => messages[1] = NO_CONNECTION
              /\ (arg.kind = "response" /\ arg.status # 201) =>
                    /\ Head(messages[1]) = "Error submitting reclamation (HTTP "
                    /\ IF arg.body = NoJSON
                       THEN IsSuffix(<<"). Please try again.">>, messages[1])
                       ELSE IsInfix(<<"). Details: ">>, messages[1])

C6_Witness ==
    /\ IsSubmit
    /\ arg = TimedOut
    /\ messages = <<SUBMIT_TIMEOUT>>
    /\ ret = <<>>
    /\ Len(requests) = 1

(***************************************************************************)
(* C7: the posted payload has username = the username slot or "Anonymous"  *)
(* when that slot is absent or empty, message = the reclamation_message    *)
(* slot or "" when absent, the fixed category and location, and the key    *)
(* email (phone) exactly when the email (phone) slot is not blank.         *)
(***************************************************************************)
C7_PayloadFromSlots ==
    IsSubmit =>
        LET data == requests[1].json IN
        /\ {"username", "message", "category", "location"} \subseteq DOMAIN data
        /\ DOMAIN data \subseteq {"username", "message", "category", "location", "email", "phone"}
        /\ data["username"] = IF Missing(tracker["username"])
                              THEN <<"A", "n", "o", "n", "y", "m", "o", "u", "s">>
                              ELSE tracker["username"].s
        /\ data["message"] = IF Missing(tracker["reclamation_message"])
                             THEN <<>> ELSE tracker["reclamation_message"].s
        /\ data["category"] = <<"Rasa Bot">>
        /\ data["location"] = <<"Rasa Chat Interface">>
        /\ "email" \in DOMAIN data <=> ~Blank(tracker["email"])
        /\ "phone" \in DOMAIN data <=> ~Blank(tracker["phone"])

C7_Witness ==
    /\ IsSubmit
    /\ tracker["email"] = Str(<<" ">>)
    /\ tracker["phone"] # None
    /\ tracker["username"] = Str(<<>>)
    /\ DOMAIN requests[1].json = {"username", "message", "category", "location", "phone"}

(***************************************************************************)
(* C8: with the reclamation_id slot absent or empty the tracking handler   *)
(* asks for an ID, returns no slot update and issues no request; with an   *)
(* id in the slot it issues exactly one request, a GET of                  *)
(* reclamations/<id>/.                                                     *)
(***************************************************************************)
C8_TrackNeedsId ==
    IsTrack =>
        IF Missing(tracker["reclamation_id"])
        THEN messages = <<ID_PROMPT>> /\ ret = <<>> /\ requests = <<>>
        ELSE /\ Len(requests) = 1
             /\ requests[1].method = "GET"
             /\ requests[1].url = <<"DJANGO_API_BASE", "/reclamations/">>
                                      \o tracker["reclamation_id"].s \o <<"/">>

C8_Witness ==
    /\ IsTrack
    /\ tracker["reclamation_id"] = Str(<<>>)
    /\ requests = <<>>
    /\ messages = <<ID_PROMPT>>

(***************************************************************************)
(* C9: on status 404 the tracking handler sends exactly one message, the   *)
(* not-found one, returns no slot update (the slots keep their values)     *)
(* and issues no further request.                                          *)
(***************************************************************************)
C9_NotFoundOnly ==
    (IsTrack /\ arg # None /\ arg.kind = "response" /\ arg.status = 404) =>
        /\ messages = <<NOT_FOUND>>
        /\ ret = <<>>
        /\ slots = tracker
        /\ Len(requests) = 1

C9_Witness ==
    /\ IsTrack
    /\ arg # None
    /\ arg.kind = "response"
    /\ arg.status = 404
    /\ messages = <<NOT_FOUND>>

(***************************************************************************)
(* C10: the reclamation_id slot always holds the string form of the id of  *)
(* the most recent successful submission ("Unknown" when that body had no  *)
(* id), or its initial value when none succeeded; this is the id a         *)
(* tracking run requests; a submission that did not succeed and every      *)
(* tracking run leave the slot as it was.                                  *)
(***************************************************************************)
C10_TrackedIdIsLastSubmitted ==
    /\ slots["reclamation_id"] = persisted
    /\ (IsTrack /\ requests # <<>>) =>
          requests[1].url = <<"DJANGO_API_BASE", "/reclamations/">> \o persisted.s \o <<"/">>
    /\ (IsTrack \/ (IsSubmit /\ ~Succeeded(arg)))
          => slots["reclamation_id"] = tracker["reclamation_id"]

C10_Witness ==
    /\ IsTrack
    /\ persisted = Str(<<"U", "n", "k", "n", "o", "w", "n">>)
    /\ requests # <<>>
    /\ requests[1].url = <<"DJANGO_API_BASE", "/reclamations/",
                           "U", "n", "k", "n", "o", "w", "n", "/">>

====
